---- MODULE Spec2Model ----
(***************************************************************************)
(* RsRetry (src/src/cdn-error-handler.ts): CDN availability probe, the     *)
(* capture-phase error listener, the per-element fallback strategies, the  *)
(* bulk replacement pass and the MutationObserver watcher.                 *)
(*                                                                         *)
(* Strings are sequences of tokens; a token stands for a run of characters *)
(* that none of the string operations of the program splits, so            *)
(* String.includes, the anchored RegExp of getCdnUrlRegex and              *)
(* String.replace are computed on token sequences as the program computes  *)
(* them on characters.  The empty sequence is the empty string, and it     *)
(* also stands for a missing attribute and for undefined.                  *)
(*                                                                         *)
(* The element record holds the state the load-error path reads and        *)
(* writes: tag, the URL attribute (src of IMG and SCRIPT, href of LINK,    *)
(* srcset of SOURCE), rel, dataset.cdnErrorHandled, style.display, the     *)
(* onerror property, document membership and the enclosing <picture>.      *)
(* The background-image engine reads and writes other fields only          *)
(* (style.backgroundImage, class bg-lazy, dataset.cdnBackgroundProcessed,  *)
(* dataset.cdnFallbackUrl, dataset.cdnFallbackPending): they are the       *)
(* records of bg, one per node; node 0 is the container element whose      *)
(* children are the elements with pic # 0.                                 *)
(***************************************************************************)
EXTENDS Integers, Sequences, FiniteSets, TLC

\* ------------------------------------------------------------------ bounds
MaxInits == 2
MaxCalls == 3
NElems == 2
MaxHead == 2
MaxReports == 2

Elems == 1..NElems

\* the elements and the container that encloses those with pic # 0
Nodes == 0..NElems

\* ----------------------------------------------------------------- strings
Includes(s, sub) ==
    \E i \in 1..(Len(s) - Len(sub) + 1) : SubSeq(s, i, i + Len(sub) - 1) = sub

StartsWith(s, p) == Len(s) >= Len(p) /\ SubSeq(s, 1, Len(p)) = p

\* location.origin and location.protocol of the page
Origin == <<"https:", "//", "page">>
PageProtocol == <<"https:">>

\* the values init's callers pass
CdnDomain == <<"cdn">>
FallbackDomain == <<"https:", "//", "fb">>
ProbePath == <<"/", "probe.png">>

defaultConfig == [cdnDomain |-> <<"mg.127.net">>, fallbackDomain |-> Origin]

OptionSet ==
    { [cdnDomain |-> CdnDomain, fallbackDomain |-> FallbackDomain],
      [cdnDomain |-> CdnDomain, fallbackDomain |-> FallbackDomain,
       testImagePath |-> ProbePath],
      [cdnDomain |-> CdnDomain, fallbackDomain |-> FallbackDomain,
       testImagePath |-> ProbePath, enableSentry |-> TRUE] }

\* { ...defaultConfig, ...options }
Spread(d, o) ==
    [k \in (DOMAIN d) \cup (DOMAIN o) |-> IF k \in DOMAIN o THEN o[k] ELSE d[k]]

\* config.testImagePath and config.enableSentry; a field neither the defaults
\* nor the options hold reads undefined
TestImagePath(c) == IF "testImagePath" \in DOMAIN c THEN c.testImagePath ELSE <<>>
EnableSentry(c) == IF "enableSentry" \in DOMAIN c THEN c.enableSentry ELSE FALSE

\* the delay setTimeout takes from config.testTimeout in testCdnAvailability: an
\* undefined delay is 0
TestTimeout(c) == IF "testTimeout" \in DOMAIN c THEN c.testTimeout ELSE 0

\* ------------------------------------------------------------ URL rewriter
\* the strings new RegExp("^(https?:)?//" + escapedDomain + "/") matches
CdnPrefixes(c) ==
    { s \o <<"//">> \o c.cdnDomain \o <<"/">> : s \in {<<>>, <<"http:">>, <<"https:">>} }

getCdnUrlRegex(c, u) == { p \in CdnPrefixes(c) : StartsWith(u, p) }

isCdnUrl(c, url) == url # <<>> /\ Includes(url, c.cdnDomain)

\* a rewriter whose pattern is not anchored: the first occurrence of
\* //<cdnDomain>/ with its scheme is replaced wherever it stands
RECURSIVE generateFallbackUrlUnanchored(_, _)
generateFallbackUrlUnanchored(c, cdnUrl) ==
    IF cdnUrl = <<>> THEN <<>>
    ELSE LET m == getCdnUrlRegex(c, cdnUrl)
         IN IF m # {}
            THEN LET p == CHOOSE q \in m : TRUE
                 IN c.fallbackDomain \o <<"/">> \o SubSeq(cdnUrl, Len(p) + 1, Len(cdnUrl))
            ELSE <<Head(cdnUrl)>> \o generateFallbackUrlUnanchored(c, Tail(cdnUrl))

\* a rewriter that forgets the "/" after the fallback domain
generateFallbackUrlNoSlash(c, cdnUrl) ==
    LET m == getCdnUrlRegex(c, cdnUrl)
    IN IF m = {} THEN cdnUrl
       ELSE LET p == CHOOSE q \in m : TRUE
            IN c.fallbackDomain \o SubSeq(cdnUrl, Len(p) + 1, Len(cdnUrl))

generateFallbackUrl(c, cdnUrl) ==
    LET m == getCdnUrlRegex(c, cdnUrl)
    IN IF m = {} THEN cdnUrl
       ELSE LET p == CHOOSE q \in m : TRUE
            IN c.fallbackDomain \o <<"/">> \o SubSeq(cdnUrl, Len(p) + 1, Len(cdnUrl))

isBackgroundFallbackEnabled(c) == TestImagePath(c) # <<>>

\* the src / href property of an element: the attribute resolved against the
\* page (a protocol-relative value gets the page's protocol), "" without one
SrcProp(el) ==
    IF el.src = <<>> THEN <<>>
    ELSE IF StartsWith(el.src, <<"//">>) THEN PageProtocol \o el.src
    ELSE el.src

\* --------------------------------------------------------------- elements
Template ==
    << [tag |-> "IMG", src |-> <<"https:", "//", "cdn", "/", "a">>, rel |-> "", pic |-> 0],
       [tag |-> "SCRIPT", src |-> <<"https:", "//", "cdn", "/", "a">>, rel |-> "", pic |-> 0],
       [tag |-> "IMG", src |-> <<"https:", "//", "mirror", "/", "cdn", "/", "a">>, rel |-> "", pic |-> 0],
       [tag |-> "IMG", src |-> <<"https:", "//", "other", "/", "a">>, rel |-> "", pic |-> 0],
       [tag |-> "IMG", src |-> <<"//", "cdn", "/", "a">>, rel |-> "", pic |-> 1],
       [tag |-> "SOURCE", src |-> <<"https:", "//", "cdn", "/", "a", ",", "https:", "//", "cdn", "/", "b">>, rel |-> "", pic |-> 1],
       [tag |-> "LINK", src |-> <<"https:", "//", "cdn", "/", "a">>, rel |-> "stylesheet", pic |-> 0] >>

\* the backgrounds a node starts with: none, an inline style, a stylesheet
\* rule, a stylesheet rule under the class bg-lazy, and the last two with a
\* rule of two layers (css2 is the second layer's URL)
BgUrl == <<"https:", "//", "cdn", "/", "bg">>

BgUrl2 == <<"https:", "//", "cdn", "/", "bg2">>

BgKinds ==
    << [inline |-> <<>>, css |-> <<>>, css2 |-> <<>>, lazy |-> FALSE],
       [inline |-> <<"url(">> \o BgUrl \o <<")">>, css |-> <<>>, css2 |-> <<>>, lazy |-> FALSE],
       [inline |-> <<>>, css |-> BgUrl, css2 |-> <<>>, lazy |-> FALSE],
       [inline |-> <<>>, css |-> BgUrl, css2 |-> <<>>, lazy |-> TRUE],
       [inline |-> <<>>, css |-> BgUrl, css2 |-> BgUrl2, lazy |-> FALSE],
       [inline |-> <<>>, css |-> BgUrl, css2 |-> BgUrl2, lazy |-> TRUE] >>

\* the kinds with at most one layer
SingleLayer == 1..4

NewBackground(k) ==
    [inline |-> k.inline, css |-> k.css, css2 |-> k.css2, lazy |-> k.lazy,
     processed |-> FALSE,
     fallbackUrl |-> <<>>, pending |-> FALSE, reveal |-> 0]

\* the async, defer, type and media properties the page's markup gives an
\* element of a tag, and those of an element document.createElement returns
AuthoredAttrs(tag) ==
    IF tag = "SCRIPT" THEN [async |-> FALSE, defer |-> TRUE, type |-> "module", media |-> ""]
    ELSE IF tag = "LINK" THEN [async |-> FALSE, defer |-> FALSE, type |-> "", media |-> "print"]
    ELSE [async |-> FALSE, defer |-> FALSE, type |-> "", media |-> ""]

CreatedAttrs(tag) ==
    [async |-> tag = "SCRIPT", defer |-> FALSE, type |-> "", media |-> ""]

NewElement(t, inDoc) ==
    [tag |-> t.tag, src |-> t.src, rel |-> t.rel, pic |-> t.pic, inDoc |-> inDoc,
     handled |-> "", display |-> "", onerror |-> FALSE, attrs |-> AuthoredAttrs(t.tag)]

VARIABLES
    config,         \* the module's config
    cdnAvailable,   \* "null" | "true" | "false"
    initialized,
    listeners,      \* capture-phase error listeners on window: one per init call
    readyState,     \* document.readyState
    domContentLoaded, \* DOMContentLoaded has been dispatched
    preDCL,         \* doPreCheck listeners waiting for DOMContentLoaded
    preTimer,       \* doPreCheck calls waiting in setTimeout(.., 0)
    calls,          \* every testCdnAvailability call, in call order
    observers,      \* MutationObservers observing document.body
    lastBulk,       \* the session (number of init calls) of the last executeReplaceAll
    elems,          \* the page's elements
    head,           \* the elements the fallback appended to document.head
    timers,         \* pending setTimeout(.., 0) of handleImageFallback
    reports,        \* calls of window.Sentry.captureException
    sentry,         \* window.Sentry is present
    bg,             \* the background state of every node
    bgTimers,       \* per node, pending setTimeout(.., 50) of handleNewElement
    delayed,        \* pending setTimeout(delayedBackgroundCheck, 100)
    loaded,         \* the window's load event has been dispatched
    loadListeners,  \* load listeners init added that can still run
    input,          \* the last call made from outside, with its arguments
    output          \* what that call returned

vars == <<config, cdnAvailable, initialized, listeners, readyState, domContentLoaded,
          preDCL, preTimer, calls, observers, lastBulk, elems, head, timers, reports,
          sentry, bg, bgTimers, delayed, loaded, loadListeners, input, output>>

\* the session: init calls so far
session == listeners

\* The part of the state the handlers transform, as one record.
St ==
    [cdnAvailable |-> cdnAvailable, calls |-> calls, observers |-> observers,
     lastBulk |-> lastBulk, elems |-> elems, head |-> head, timers |-> timers,
     reports |-> reports, bg |-> bg, bgTimers |-> bgTimers, delayed |-> delayed]

Put(s) ==
    \E v \in {s} :
        /\ cdnAvailable' = v.cdnAvailable
        /\ calls' = v.calls
        /\ observers' = v.observers
        /\ lastBulk' = v.lastBulk
        /\ elems' = v.elems
        /\ head' = v.head
        /\ timers' = v.timers
        /\ reports' = v.reports
        /\ bg' = v.bg
        /\ bgTimers' = v.bgTimers
        /\ delayed' = v.delayed

\* ------------------------------------------------------- processing marks
markElementProcessed(els, e) == [els EXCEPT ![e].handled = "true"]

isElementProcessed(els, e) == els[e].handled = "true"

\* a reportCdnError that does not read config.enableSentry
reportCdnErrorAlways(c, s) ==
    IF sentry THEN [s EXCEPT !.reports = @ + 1] ELSE s

\* reportCdnError(resourceUrl): one captureException call when reporting is on
\* and window.Sentry has the function
reportCdnError(c, s) ==
    IF ~EnableSentry(c) THEN s
    ELSE IF sentry THEN [s EXCEPT !.reports = @ + 1]
    ELSE s

\* --------------------------------------------------- resource error path
handleScriptFallback(s, e, fallbackUrl) ==
    LET script == s.elems[e].attrs
        newScript == [CreatedAttrs("SCRIPT") EXCEPT
                        !.async = script.async,
                        !.defer = script.defer,
                        !.type = IF script.type # "" THEN script.type ELSE @]
    IN [s EXCEPT !.head = Append(@, [tag |-> "SCRIPT", src |-> fallbackUrl, of |-> e,
                                     rel |-> "", attrs |-> newScript])]

handleLinkFallback(s, e, fallbackUrl) ==
    LET link == s.elems[e].attrs
        newLink == [CreatedAttrs("LINK") EXCEPT
                        !.type = "text/css",
                        !.media = IF link.media # "" THEN link.media ELSE @]
    IN [s EXCEPT !.head = Append(@, [tag |-> "LINK", src |-> fallbackUrl, of |-> e,
                                     rel |-> "stylesheet", attrs |-> newLink])]

\* source[srcset*=cdnDomain] below the <picture> of img e, rewritten and marked
PictureSources(c, els, e) ==
    { x \in Elems : /\ els[x].tag = "SOURCE"
                    /\ els[x].pic = els[e].pic
                    /\ Includes(els[x].src, c.cdnDomain)
                    /\ ~isElementProcessed(els, x)
                    /\ isCdnUrl(c, els[x].src) }

\* an image fallback that assigns the new src at once instead of on the next tick
handleImageFallbackSync(c, s, e, fallbackUrl) ==
    [s EXCEPT !.elems[e].src = fallbackUrl, !.elems[e].onerror = TRUE]

handleImageFallback(c, s, e, fallbackUrl) ==
    LET srcs == IF s.elems[e].pic # 0 THEN PictureSources(c, s.elems, e) ELSE {}
        els1 == [x \in Elems |->
                    IF x \in srcs
                    THEN [s.elems[x] EXCEPT !.src = generateFallbackUrl(c, s.elems[x].src),
                                            !.handled = "true"]
                    ELSE s.elems[x]]
        els2 == [els1 EXCEPT ![e].src = <<>>]
    IN [s EXCEPT !.elems = els2,
                 !.timers = @ \cup {[el |-> e, url |-> fallbackUrl]}]

\* a handler that does not look at the URL of an unmarked element
handleResourceErrorAnyUrl(c, s, e) ==
    LET el == s.elems[e]
        fallbackUrl == generateFallbackUrl(c, SrcProp(el))
    IN IF isElementProcessed(s.elems, e)
       THEN [s EXCEPT !.elems[e].handled = "failed",
                      !.elems[e].display = IF el.tag = "IMG" THEN "none" ELSE @]
       ELSE reportCdnError(c, [s EXCEPT !.elems = markElementProcessed(@, e),
                                        !.elems[e].src = fallbackUrl])

handleResourceError(c, s, e) ==
    LET el == s.elems[e]
        resourceUrl == SrcProp(el)
    IN IF isElementProcessed(s.elems, e)
       THEN [s EXCEPT !.elems[e].handled = "failed",
                      !.elems[e].display = IF el.tag = "IMG" THEN "none" ELSE @]
       ELSE IF ~isCdnUrl(c, resourceUrl) THEN s
       ELSE LET fallbackUrl == generateFallbackUrl(c, resourceUrl)
                s1 == [s EXCEPT !.elems = markElementProcessed(@, e)]
                s2 == IF el.tag = "SCRIPT" THEN handleScriptFallback(s1, e, fallbackUrl)
                      ELSE IF el.tag = "LINK" /\ el.rel = "stylesheet"
                           THEN handleLinkFallback(s1, e, fallbackUrl)
                      ELSE IF el.tag = "IMG" THEN handleImageFallback(c, s1, e, fallbackUrl)
                      ELSE s1
            IN IF resourceUrl # <<>> THEN reportCdnError(c, s2) ELSE s2

\* the setTimeout(.., 0) callback of handleImageFallback
ImageRetry(s, t) ==
    [s EXCEPT !.elems[t.el].src = t.url,
              !.elems[t.el].onerror = TRUE,
              !.timers = @ \ {t}]

\* the listener initErrorListener adds, on an error event whose target is e
ErrorListener(c, s, e) ==
    LET resourceUrl == SrcProp(s.elems[e])
    IN IF resourceUrl = <<>> THEN s
       ELSE IF ~isCdnUrl(c, resourceUrl) THEN s
       ELSE IF s.elems[e].tag \in {"SCRIPT", "LINK", "IMG"} THEN handleResourceError(c, s, e)
       ELSE s

\* an error event on e: the n capture listeners in turn, then the target's onerror
RECURSIVE Listeners(_, _, _, _)
Listeners(n, c, s, e) ==
    IF n = 0 THEN s ELSE Listeners(n - 1, c, ErrorListener(c, s, e), e)

\* an error event whose target hides itself whether or not img.onerror was set
DispatchErrorHiding(n, c, s, e) ==
    [Listeners(n, c, s, e) EXCEPT !.elems[e].display = "none"]

DispatchError(n, c, s, e) ==
    LET s1 == Listeners(n, c, s, e)
    IN IF s1.elems[e].onerror THEN [s1 EXCEPT !.elems[e].display = "none"] ELSE s1

\* ------------------------------------------------------ background images
\* the serialisation of a background-image with one URL
CssUrl(u) == <<"url(">> \o u \o <<")">>

\* the URL the pattern url\(["']?([^"')]+)["']?\) captures in a style value
UrlOf(style) ==
    IF Len(style) >= 3 /\ Head(style) = "url(" /\ style[Len(style)] = ")"
    THEN SubSeq(style, 2, Len(style) - 1) ELSE <<>>

\* window.getComputedStyle(element).backgroundImage: the inline style wins, the
\* rule .bg-lazy { background-image: none !important } hides the authored
\* value; "" stands for none
Computed(b) ==
    IF b.inline # <<>> THEN b.inline
    ELSE IF b.lazy \/ b.css = <<>> THEN <<>>
    ELSE IF b.css2 = <<>> THEN CssUrl(b.css)
    ELSE CssUrl(b.css) \o <<",">> \o CssUrl(b.css2)

\* the index of the first ")" of a style value, 0 if none
RECURSIVE CloseAt(_, _)
CloseAt(style, i) ==
    IF i > Len(style) THEN 0 ELSE IF style[i] = ")" THEN i ELSE CloseAt(style, i + 1)

\* computedStyle.match(/url\(["']?([^"')]+)["']?\)/g) with each match's capture:
\* the URLs of the layers, in order
RECURSIVE UrlMatches(_)
UrlMatches(style) ==
    IF style = <<>> THEN <<>>
    ELSE IF Head(style) # "url(" THEN UrlMatches(Tail(style))
    ELSE LET j == CloseAt(style, 2)
         IN IF j = 0 THEN <<>>
            ELSE IF j = 2 THEN UrlMatches(SubSeq(style, 3, Len(style)))
            ELSE <<SubSeq(style, 2, j - 1)>> \o UrlMatches(SubSeq(style, j + 1, Len(style)))

\* String.replace(new RegExp(escaped(a), "g"), r)
RECURSIVE ReplaceAllOf(_, _, _)
ReplaceAllOf(s, a, r) ==
    IF s = <<>> \/ a = <<>> THEN s
    ELSE IF StartsWith(s, a) THEN r \o ReplaceAllOf(SubSeq(s, Len(a) + 1, Len(s)), a, r)
    ELSE <<Head(s)>> \o ReplaceAllOf(Tail(s), a, r)

markBackgroundProcessed(b) == [b EXCEPT !.processed = TRUE]

isBackgroundProcessed(b) == b.processed

\* replaceInlineBackgroundImage: whether it handled the element, and the element
replaceInlineBackgroundImage(c, b) ==
    IF ~isBackgroundFallbackEnabled(c) THEN <<FALSE, b>>
    ELSE IF b.inline = <<>> \/ ~isCdnUrl(c, b.inline) THEN <<FALSE, b>>
    ELSE <<TRUE, [b EXCEPT !.inline = generateFallbackUrl(c, b.inline)]>>

\* the body of urlMatches.forEach in replaceComputedBackgroundImage for one URL
replaceLayer(c, b, originalUrl, hasBgLazy) ==
    LET fallbackUrl == generateFallbackUrl(c, originalUrl)
    IN IF originalUrl = <<>> \/ ~isCdnUrl(c, originalUrl) THEN b
       ELSE IF hasBgLazy THEN [b EXCEPT !.fallbackUrl = fallbackUrl]
       ELSE IF b.inline # <<>>
       THEN [b EXCEPT !.inline = ReplaceAllOf(b.inline, originalUrl, fallbackUrl)]
       ELSE [b EXCEPT !.inline = CssUrl(fallbackUrl)]

RECURSIVE replaceLayers(_, _, _, _)
replaceLayers(c, b, urls, hasBgLazy) ==
    IF urls = <<>> THEN b
    ELSE replaceLayers(c, replaceLayer(c, b, Head(urls), hasBgLazy), Tail(urls), hasBgLazy)

replaceComputedBackgroundImage(c, b, hasBgLazy) ==
    LET computedStyle == Computed(b)
    IN IF ~isBackgroundFallbackEnabled(c) THEN b
       ELSE IF computedStyle = <<>> THEN b
       ELSE replaceLayers(c, b, UrlMatches(computedStyle), hasBgLazy)

\* a replaceBackgroundImage that does not put the class bg-lazy back
replaceBackgroundImageNoRestore(c, b) ==
    IF ~isBackgroundFallbackEnabled(c) THEN b
    ELSE LET r == replaceInlineBackgroundImage(c, b)
         IN IF r[1] THEN r[2]
            ELSE replaceComputedBackgroundImage(c, [b EXCEPT !.lazy = FALSE], b.lazy)

\* replaceBackgroundImage(element): the inline style first; else the computed
\* style, read with the class bg-lazy taken off and put back afterwards
replaceBackgroundImage(c, b) ==
    IF ~isBackgroundFallbackEnabled(c) THEN b
    ELSE LET r == replaceInlineBackgroundImage(c, b)
         IN IF r[1] THEN r[2]
            ELSE [replaceComputedBackgroundImage(c, [b EXCEPT !.lazy = FALSE], b.lazy)
                     EXCEPT !.lazy = b.lazy]

\* document membership of a node, and the elements below it
InDocument(s, n) ==
    IF n = 0 THEN \E x \in Elems : s.elems[x].pic # 0 /\ s.elems[x].inDoc
    ELSE s.elems[n].inDoc

Descendants(s, n) == IF n = 0 THEN { x \in Elems : s.elems[x].pic # 0 } ELSE {}

replaceAllBackgroundImages(c, s) ==
    IF ~isBackgroundFallbackEnabled(c) THEN s
    ELSE LET b1 == [n \in Nodes |->
                      IF InDocument(s, n) /\ ~isBackgroundProcessed(s.bg[n])
                      THEN replaceBackgroundImage(c, s.bg[n]) ELSE s.bg[n]]
         IN [s EXCEPT !.bg = [n \in Nodes |->
                                IF InDocument(s, n) /\ b1[n].lazy
                                THEN [b1[n] EXCEPT !.pending = TRUE] ELSE b1[n]]]

\* the body of urlMatches.forEach in delayedBackgroundCheck, for the URLs the
\* computed style had when the loop began
RECURSIVE delayedLayers(_, _, _)
delayedLayers(c, b, urls) ==
    IF urls = <<>> THEN b
    ELSE delayedLayers(c,
                       IF isCdnUrl(c, Head(urls))
                       THEN markBackgroundProcessed(replaceBackgroundImage(c, b)) ELSE b,
                       Tail(urls))

delayedBackgroundCheck(c, s) ==
    IF ~isBackgroundFallbackEnabled(c) THEN s
    ELSE [s EXCEPT !.bg = [n \in Nodes |->
            IF InDocument(s, n) /\ ~isBackgroundProcessed(s.bg[n])
            THEN delayedLayers(c, s.bg[n], UrlMatches(Computed(s.bg[n])))
            ELSE s.bg[n]]]

\* the body of init's load listener
loadListener(c, s) ==
    IF s.cdnAvailable # "false" THEN s
    ELSE [s EXCEPT !.bg = [n \in Nodes |->
            IF InDocument(s, n) /\ ~isBackgroundProcessed(s.bg[n])
            THEN markBackgroundProcessed(replaceBackgroundImage(c, s.bg[n]))
            ELSE s.bg[n]]]

\* a checkElementBackground that leaves the elements below the target alone
checkElementBackgroundTargetOnly(c, s, target) ==
    IF target \notin Nodes \/ s.cdnAvailable # "false" \/ ~isBackgroundFallbackEnabled(c)
    THEN s
    ELSE IF isBackgroundProcessed(s.bg[target]) THEN s
    ELSE [s EXCEPT !.bg[target] = markBackgroundProcessed(replaceBackgroundImage(c, @))]

\* checkElementBackground(element); target -1 is a selector that matches nothing
checkElementBackground(c, s, target) ==
    IF target \notin Nodes \/ s.cdnAvailable # "false" \/ ~isBackgroundFallbackEnabled(c)
    THEN s
    ELSE [s EXCEPT !.bg = [n \in Nodes |->
            IF (n = target \/ n \in Descendants(s, target))
               /\ ~isBackgroundProcessed(s.bg[n])
            THEN markBackgroundProcessed(replaceBackgroundImage(c, s.bg[n]))
            ELSE s.bg[n]]]

\* ------------------------------------------------------------- bulk pass
replaceAllSources(c, s) ==
    LET els == s.elems
        hit(x) == /\ els[x].tag = "SOURCE" /\ els[x].inDoc
                  /\ Includes(els[x].src, c.cdnDomain)
                  /\ ~isElementProcessed(els, x)
                  /\ isCdnUrl(c, els[x].src)
    IN [s EXCEPT !.elems =
            [x \in Elems |->
                IF hit(x)
                THEN [els[x] EXCEPT !.src = generateFallbackUrl(c, els[x].src),
                                    !.handled = "true"]
                ELSE els[x]]]

replaceAllImages(c, s) ==
    LET els == s.elems
        hit(x) == /\ els[x].tag = "IMG" /\ els[x].inDoc
                  /\ Includes(els[x].src, c.cdnDomain)
                  /\ ~isElementProcessed(els, x)
                  /\ isCdnUrl(c, SrcProp(els[x]))
    IN [s EXCEPT !.elems =
            [x \in Elems |->
                IF hit(x)
                THEN [els[x] EXCEPT !.src = generateFallbackUrl(c, SrcProp(els[x])),
                                    !.handled = "true"]
                ELSE els[x]]]

replaceAllCdnResources(c, s) ==
    LET s1 == replaceAllImages(c, replaceAllSources(c, s))
    IN IF isBackgroundFallbackEnabled(c) THEN replaceAllBackgroundImages(c, s1) ELSE s1

observeDynamicElements(s) == [s EXCEPT !.observers = @ + 1]

executeReplaceAll(c, s, sess) ==
    LET s1 == [observeDynamicElements(replaceAllCdnResources(c, s)) EXCEPT !.lastBulk = sess]
    IN IF isBackgroundFallbackEnabled(c) THEN [s1 EXCEPT !.delayed = @ + 1] ELSE s1

\* ------------------------------------------------------ availability probe
\* the callback a probe call was given: doPreCheck's runs executeReplaceAll on
\* false; test's is the caller's own
Callback(c, s, by, isAvailable, sess) ==
    IF by = "init" /\ ~isAvailable THEN executeReplaceAll(c, s, sess) ELSE s

NewCall(c, s, by, sess) ==
    [by |-> by, sess |-> sess, path |-> TestImagePath(c) # <<>>, pre |-> s.cdnAvailable,
     img |-> FALSE, timer |-> "none", load |-> FALSE, err |-> FALSE,
     completed |-> FALSE, first |-> "none", cbN |-> 0, cbV |-> "none", doneSess |-> 0]

\* a probe that ignores a missing testImagePath
testCdnAvailabilityAlwaysPath(c, s, by, sess) ==
    LET call == NewCall(c, s, by, sess)
    IN IF s.cdnAvailable # "null"
       THEN Callback(c, [s EXCEPT !.calls = Append(@, [call EXCEPT !.cbN = 1,
                                                                  !.cbV = s.cdnAvailable,
                                                                  !.doneSess = sess])],
                     by, s.cdnAvailable = "true", sess)
       ELSE [s EXCEPT !.calls = Append(@, [call EXCEPT !.img = TRUE, !.timer = "pending"])]

\* a probe that ignores the cached result
testCdnAvailabilityNoCache(c, s, by, sess) ==
    LET call == NewCall(c, s, by, sess)
    IN IF TestImagePath(c) = <<>>
       THEN Callback(c, [s EXCEPT !.cdnAvailable = "true",
                                  !.calls = Append(@, [call EXCEPT !.cbN = 1,
                                                                  !.cbV = "true",
                                                                  !.doneSess = sess])],
                     by, TRUE, sess)
       ELSE [s EXCEPT !.calls = Append(@, [call EXCEPT !.img = TRUE, !.timer = "pending"])]

testCdnAvailability(c, s, by, sess) ==
    LET call == NewCall(c, s, by, sess)
        sync(v) == [call EXCEPT !.cbN = 1, !.cbV = v, !.doneSess = sess]
    IN IF TestImagePath(c) = <<>>
       THEN Callback(c, [s EXCEPT !.cdnAvailable = "true",
                                  !.calls = Append(@, sync("true"))],
                     by, TRUE, sess)
       ELSE IF s.cdnAvailable # "null"
       THEN Callback(c, [s EXCEPT !.calls = Append(@, sync(s.cdnAvailable))],
                     by, s.cdnAvailable = "true", sess)
       ELSE [s EXCEPT !.calls = Append(@, [call EXCEPT !.img = TRUE, !.timer = "pending"])]

\* a complete() without its completed flag
completeUnguarded(c, s, i, isAvailable, ev, sess) ==
    Callback(c,
        [s EXCEPT !.calls[i].completed = TRUE,
                  !.calls[i].timer = IF @ = "pending" THEN "cleared" ELSE @,
                  !.calls[i].first = ev,
                  !.calls[i].cbN = @ + 1,
                  !.calls[i].cbV = IF isAvailable THEN "true" ELSE "false",
                  !.calls[i].doneSess = sess,
                  !.cdnAvailable = IF isAvailable THEN "true" ELSE "false"],
        s.calls[i].by, isAvailable, sess)

\* complete(isAvailable) of call i, reached from event ev
complete(c, s, i, isAvailable, ev, sess) ==
    IF s.calls[i].completed THEN s
    ELSE Callback(c,
            [s EXCEPT !.calls[i].completed = TRUE,
                      !.calls[i].timer = IF @ = "pending" THEN "cleared" ELSE @,
                      !.calls[i].first = ev,
                      !.calls[i].cbN = @ + 1,
                      !.calls[i].cbV = IF isAvailable THEN "true" ELSE "false",
                      !.calls[i].doneSess = sess,
                      !.cdnAvailable = IF isAvailable THEN "true" ELSE "false"],
            s.calls[i].by, isAvailable, sess)

\* n doPreCheck listeners in turn
RECURSIVE doPreCheck(_, _, _, _)
doPreCheck(n, c, s, sess) ==
    IF n = 0 THEN s ELSE doPreCheck(n - 1, c, testCdnAvailability(c, s, "init", sess), sess)

\* ---------------------------------------------------------------- actions
Others == <<config, initialized, listeners, readyState, domContentLoaded, preDCL,
            preTimer, sentry, loaded, loadListeners, input, output>>

\* calls made and calls scheduled
Booked == Len(calls) + preDCL + preTimer

init(options) ==
    /\ listeners < MaxInits
    /\ Booked < MaxCalls
    /\ LET merged == Spread(defaultConfig, options)
           c == IF merged.fallbackDomain = <<>>
                THEN [merged EXCEPT !.fallbackDomain = Origin] ELSE merged
           s == [St EXCEPT !.cdnAvailable = "null"]
       IN /\ config' = c
          /\ initialized' = TRUE
          /\ listeners' = listeners + 1
          /\ loadListeners' = IF isBackgroundFallbackEnabled(c) /\ ~loaded
                              THEN loadListeners + 1 ELSE loadListeners
          /\ IF readyState = "loading"
             THEN /\ preDCL' = preDCL + 1 /\ preTimer' = preTimer /\ Put(s)
             ELSE IF readyState = "interactive"
             THEN /\ preTimer' = preTimer + 1 /\ preDCL' = preDCL /\ Put(s)
             ELSE /\ Put(doPreCheck(1, c, s, listeners + 1))
                  /\ UNCHANGED <<preDCL, preTimer>>
    /\ UNCHANGED <<readyState, domContentLoaded, sentry, loaded, input, output>>

\* the document finishes parsing
Interactive ==
    /\ readyState = "loading"
    /\ readyState' = "interactive"
    /\ UNCHANGED <<config, cdnAvailable, initialized, listeners, domContentLoaded,
                   preDCL, preTimer, calls, observers, lastBulk, elems, head, timers,
                   reports, sentry, bg, bgTimers, delayed, loaded, loadListeners,
                   input, output>>

DOMContentLoaded ==
    /\ readyState = "interactive"
    /\ ~domContentLoaded
    /\ domContentLoaded' = TRUE
    /\ preDCL' = 0
    /\ Put(doPreCheck(preDCL, config, St, session))
    /\ UNCHANGED <<config, initialized, listeners, readyState, preTimer, sentry,
                   loaded, loadListeners, input, output>>

Complete ==
    /\ readyState = "interactive"
    /\ domContentLoaded
    /\ readyState' = "complete"
    /\ UNCHANGED <<config, cdnAvailable, initialized, listeners, domContentLoaded,
                   preDCL, preTimer, calls, observers, lastBulk, elems, head, timers,
                   reports, sentry, bg, bgTimers, delayed, loaded, loadListeners,
                   input, output>>

\* the setTimeout(.., 0) init sets while the document is interactive
PreCheckTimer ==
    /\ preTimer > 0
    /\ preTimer' = preTimer - 1
    /\ Put(doPreCheck(1, config, St, session))
    /\ UNCHANGED <<config, initialized, listeners, readyState, domContentLoaded,
                   preDCL, sentry, loaded, loadListeners, input, output>>

\* a getConfigSnapshot that hands out the module's own config object
getConfigSnapshotShared ==
    IF ~initialized THEN [null |-> TRUE]
    ELSE [null |-> FALSE, shared |-> TRUE, value |-> config]

\* getConfigSnapshot(): null, or a new object with config's fields; shared tells
\* whether the object returned is the module's own
getConfigSnapshot ==
    IF ~initialized THEN [null |-> TRUE]
    ELSE [null |-> FALSE, shared |-> FALSE, value |-> config]

\* publicAPI.getConfig() and the config getter
getConfig ==
    /\ input' = <<"getConfig">>
    /\ output' = getConfigSnapshot
    /\ UNCHANGED <<config, cdnAvailable, initialized, listeners, readyState,
                   domContentLoaded, preDCL, preTimer, calls, observers, lastBulk, elems,
                   head, timers, reports, sentry, bg, bgTimers, delayed, loaded,
                   loadListeners>>

\* the caller assigns field k of the snapshot it was given
SetSnapshotField(k) ==
    /\ Len(input) > 0 /\ input[1] \in {"getConfig", "set"}
    /\ ~output.null
    /\ input' = <<"set", k>>
    /\ output' = [output EXCEPT !.value = Spread(@, [x \in {k} |-> <<"changed">>])]
    /\ config' = IF output.shared THEN Spread(config, [x \in {k} |-> <<"changed">>])
                 ELSE config
    /\ UNCHANGED <<cdnAvailable, initialized, listeners, readyState,
                   domContentLoaded, preDCL, preTimer, calls, observers, lastBulk, elems,
                   head, timers, reports, sentry, bg, bgTimers, delayed, loaded,
                   loadListeners>>

\* publicAPI.test(callback), publicAPI.replaceAll(), publicAPI.replaceBackground(
\* element) and publicAPI.checkElement(element) as functions of the state
publicTestUnguarded(s) == testCdnAvailability(config, s, "test", session)

publicTest(s) ==
    IF ~initialized THEN s ELSE testCdnAvailability(config, s, "test", session)

publicReplaceAll(s) ==
    IF ~initialized THEN s ELSE replaceAllCdnResources(config, s)

publicReplaceBackground(s, n) ==
    IF ~initialized THEN s ELSE [s EXCEPT !.bg[n] = replaceBackgroundImage(config, @)]

publicCheckElement(s, target) ==
    IF ~initialized THEN s ELSE checkElementBackground(config, s, target)

\* publicAPI.test(callback)
test ==
    /\ Booked < MaxCalls
    /\ Put(publicTest(St))
    /\ UNCHANGED Others

\* testImg.onload, testImg.onerror and the timer of call i
onload(i) ==
    /\ i \in DOMAIN calls
    /\ calls[i].img /\ ~calls[i].load
    /\ Put(complete(config, [St EXCEPT !.calls[i].load = TRUE], i, TRUE, "load", session))
    /\ UNCHANGED Others

onerror(i) ==
    /\ i \in DOMAIN calls
    /\ calls[i].img /\ ~calls[i].err
    /\ Put(complete(config, [St EXCEPT !.calls[i].err = TRUE], i, FALSE, "error", session))
    /\ UNCHANGED Others

\* a probe timer that a later init has cancelled
timeoutOfSession(i) ==
    /\ i \in DOMAIN calls
    /\ calls[i].timer = "pending"
    /\ calls[i].sess = session
    /\ Put(complete(config, [St EXCEPT !.calls[i].timer = "fired"], i, FALSE, "timeout",
                    session))
    /\ UNCHANGED Others

timeout(i) ==
    /\ i \in DOMAIN calls
    /\ calls[i].timer = "pending"
    /\ Put(complete(config, [St EXCEPT !.calls[i].timer = "fired"], i, FALSE, "timeout",
                    session))
    /\ UNCHANGED Others

\* ------------------------------------------------------------- the watcher
\* the background part of handleNewElement(node) for the inserted node n: the
\* pending flag of bg-lazy elements and the setTimeout(.., 50) of the node and
\* of the elements below it
handleNewBackground(c, s, n) ==
    IF ~isBackgroundFallbackEnabled(c) THEN s
    ELSE LET below == Descendants(s, n)
         IN [s EXCEPT
               !.bg = [m \in Nodes |->
                         IF (m = n \/ m \in below) /\ s.bg[m].lazy
                         THEN [s.bg[m] EXCEPT !.pending = TRUE] ELSE s.bg[m]],
               !.bgTimers = [m \in Nodes |->
                         IF (m = n \/ m \in below) /\ ~isBackgroundProcessed(s.bg[m])
                         THEN s.bgTimers[m] + 1 ELSE s.bgTimers[m]]]

\* a watcher that handles insertions whatever the probe said
handleNewElementAlways(c, s, e) ==
    LET el == s.elems[e]
    IN IF el.tag = "IMG" /\ SrcProp(el) # <<>> /\ isCdnUrl(c, SrcProp(el))
       THEN IF ~isElementProcessed(s.elems, e) THEN handleResourceError(c, s, e) ELSE s
       ELSE s

\* handleNewElement(node) for an inserted IMG, SOURCE, SCRIPT or LINK element e
handleNewElement(c, s, e) ==
    LET el == s.elems[e]
    IN IF s.cdnAvailable # "false" THEN s
       ELSE IF el.tag = "IMG" /\ SrcProp(el) # <<>> /\ isCdnUrl(c, SrcProp(el))
       THEN IF ~isElementProcessed(s.elems, e) THEN handleResourceError(c, s, e) ELSE s
       ELSE IF el.tag = "SOURCE" /\ el.src # <<>> /\ isCdnUrl(c, el.src)
       THEN IF ~isElementProcessed(s.elems, e)
            THEN [s EXCEPT !.elems[e].src = generateFallbackUrl(c, el.src),
                           !.elems[e].handled = "true"]
            ELSE s
       ELSE handleNewBackground(c, s, e)

\* handleNewElement(node) for an inserted <picture>: the img[src*=cdnDomain]
\* below it, in document order from element x on
RECURSIVE PictureImages(_, _, _)
PictureImages(c, s, x) ==
    IF x > NElems THEN s
    ELSE LET el == s.elems[x]
             hit == /\ el.pic # 0 /\ el.tag = "IMG"
                    /\ Includes(el.src, c.cdnDomain)
                    /\ ~isElementProcessed(s.elems, x)
         IN PictureImages(c, IF hit THEN handleResourceError(c, s, x) ELSE s, x + 1)

handleNewPicture(c, s) ==
    IF s.cdnAvailable # "false" THEN s
    ELSE handleNewBackground(c, PictureImages(c, s, 1), 0)

\* the callbacks of the n observers for one inserted node
RECURSIVE Observers(_, _, _, _)
Observers(n, c, s, e) ==
    IF n = 0 THEN s
    ELSE Observers(n - 1, c,
                   IF e = 0 THEN handleNewPicture(c, s) ELSE handleNewElement(c, s, e), e)

InBounds(s) == Len(s.head) <= MaxHead /\ s.reports <= MaxReports

\* a load failure of element e: the error event
ErrorEvent(e) ==
    /\ elems[e].tag \in {"SCRIPT", "LINK", "IMG"}
    /\ elems[e].src # <<>>
    /\ elems[e].tag = "IMG" \/ elems[e].inDoc
    /\ LET s == DispatchError(listeners, config, St, e)
       IN InBounds(s) /\ Put(s)
    /\ UNCHANGED Others

ImageTimer(t) ==
    /\ t \in timers
    /\ Put(ImageRetry(St, t))
    /\ UNCHANGED Others

\* publicAPI.replaceAll()
replaceAll ==
    /\ Put(publicReplaceAll(St))
    /\ UNCHANGED Others

\* publicAPI.replaceBackground(element)
replaceBackground(n) ==
    /\ Put(publicReplaceBackground(St, n))
    /\ UNCHANGED Others

\* publicAPI.checkElement(element | selector)
checkElement(target) ==
    /\ Put(publicCheckElement(St, target))
    /\ UNCHANGED Others

\* a setTimeout(.., 50) callback of handleNewElement for node n
BgTimer(n) ==
    /\ bgTimers[n] > 0
    /\ Put([St EXCEPT !.bgTimers[n] = @ - 1,
                      !.bg[n] = markBackgroundProcessed(replaceBackgroundImage(config, @))])
    /\ UNCHANGED Others

\* a setTimeout(delayedBackgroundCheck, 100) callback
DelayedCheck ==
    /\ delayed > 0
    /\ Put(delayedBackgroundCheck(config, [St EXCEPT !.delayed = @ - 1]))
    /\ UNCHANGED Others

\* n load listeners in turn
RECURSIVE LoadListeners(_, _, _)
LoadListeners(n, c, s) ==
    IF n = 0 THEN s ELSE LoadListeners(n - 1, c, loadListener(c, s))

\* the window's load event
WindowLoad ==
    /\ readyState = "complete"
    /\ ~loaded
    /\ loaded' = TRUE
    /\ loadListeners' = 0
    /\ Put(LoadListeners(loadListeners, config, St))
    /\ UNCHANGED <<config, initialized, listeners, readyState, domContentLoaded, preDCL,
                   preTimer, sentry, input, output>>

\* ------------------------------------------------ the lazy-reveal script
\* publicAPI's cdnAvailable getter
publicCdnAvailable(s) == s.cdnAvailable

\* window.RsRetry.cdnAvailable as the lazy script reads it: the object index.ts
\* exports has the members init, test, replaceAll, replaceBackground,
\* checkElement, getConfig and config, so the read gives undefined
RsRetryCdnAvailable(s) == "undefined"

\* loadBackgroundImage(element) of bg-lazy.js; reveal counts its setTimeout(.., 0)
loadBackgroundImage(s, n) ==
    LET b == [s.bg[n] EXCEPT !.lazy = FALSE]
    IN IF RsRetryCdnAvailable(s) # "false" THEN [s EXCEPT !.bg[n] = b]
       ELSE IF b.fallbackUrl # <<>>
       THEN [s EXCEPT !.bg[n] = [b EXCEPT !.inline = CssUrl(b.fallbackUrl),
                                          !.fallbackUrl = <<>>]]
       ELSE IF b.pending THEN [s EXCEPT !.bg[n] = [b EXCEPT !.reveal = @ + 1]]
       ELSE [s EXCEPT !.bg[n] = b]

\* the IntersectionObserver callback for node n, which the script observes from
\* DOMContentLoaded on while it has the class bg-lazy
Reveal(n) ==
    /\ domContentLoaded
    /\ bg[n].lazy
    /\ InDocument(St, n)
    /\ input' = <<"reveal", n>>
    /\ Put(loadBackgroundImage(St, n))
    /\ UNCHANGED <<config, initialized, listeners, readyState, domContentLoaded, preDCL,
                   preTimer, sentry, loaded, loadListeners, output>>

\* the setTimeout(.., 0) callback of loadBackgroundImage for node n
RevealTimer(n) ==
    /\ bg[n].reveal > 0
    /\ Put(publicReplaceBackground([St EXCEPT !.bg[n].reveal = @ - 1], n))
    /\ UNCHANGED Others

\* the page appends element e to the body
appendChild(e) ==
    /\ ~elems[e].inDoc
    /\ elems[e].pic = 0
    /\ LET s == Observers(observers, config, [St EXCEPT !.elems[e].inDoc = TRUE], e)
       IN InBounds(s) /\ Put(s)
    /\ UNCHANGED Others

\* the page appends the <picture> with its children to the body
appendPicture ==
    /\ \E x \in Elems : elems[x].pic # 0 /\ ~elems[x].inDoc
    /\ LET s0 == [St EXCEPT !.elems = [x \in Elems |->
                        IF @[x].pic # 0 THEN [@[x] EXCEPT !.inDoc = TRUE] ELSE @[x]]]
           s == Observers(observers, config, s0, 0)
       IN InBounds(s) /\ Put(s)
    /\ UNCHANGED Others

\* The state when the script has been evaluated: the document in phase r, the
\* page's elements f (a template and whether the element is in the document).
Boot(r, f, sn, k, ld, arg) ==
    /\ config = defaultConfig
    /\ cdnAvailable = "null"
    /\ initialized = FALSE
    /\ listeners = 0
    /\ readyState = r[1]
    /\ domContentLoaded = r[2]
    /\ preDCL = 0
    /\ preTimer = 0
    /\ calls = <<>>
    /\ observers = 0
    /\ lastBulk = 0
    /\ elems = [x \in Elems |-> NewElement(Template[f[x][1]], f[x][2])]
    /\ head = <<>>
    /\ timers = {}
    /\ reports = 0
    /\ sentry = sn
    /\ bg = [n \in Nodes |-> NewBackground(BgKinds[k[n]])]
    /\ bgTimers = [n \in Nodes |-> 0]
    /\ delayed = 0
    /\ loaded = ld
    /\ loadListeners = 0
    /\ input = arg
    /\ output = <<>>

\* a page without background images, its load event dispatched if it is complete
Start(r, f, sn) == Boot(r, f, sn, [n \in Nodes |-> 1], r[1] = "complete", <<>>)

Phases == {<<"loading", FALSE>>, <<"interactive", FALSE>>, <<"interactive", TRUE>>,
           <<"complete", TRUE>>}

\* a page whose x-th element is of the x-th template, all in the document
Page == [x \in Elems |-> <<((x - 1) % Len(Template)) + 1, TRUE>>]

ProbeInit == \E r \in Phases : Start(r, Page, FALSE)

ProbeOptions == { o \in OptionSet : "enableSentry" \notin DOMAIN o }

ProbeNext ==
    \/ \E o \in ProbeOptions : init(o)
    \/ Interactive
    \/ DOMContentLoaded
    \/ Complete
    \/ PreCheckTimer
    \/ test
    \/ \E i \in 1..MaxCalls : onload(i)
    \/ \E i \in 1..MaxCalls : onerror(i)
    \/ \E i \in 1..MaxCalls : timeout(i)

ProbeSpec == ProbeInit /\ [][ProbeNext]_vars

\* The probe on a page that is already complete, under the event loop's
\* guarantee that pending timers run.
ProbeLiveNext ==
    \/ \E o \in ProbeOptions : init(o)
    \/ test
    \/ \E i \in 1..MaxCalls : onload(i)
    \/ \E i \in 1..MaxCalls : onerror(i)
    \/ \E i \in 1..MaxCalls : timeout(i)

ProbeLiveSpec ==
    /\ Start(<<"complete", TRUE>>, Page, FALSE)
    /\ [][ProbeLiveNext]_vars
    /\ WF_vars(\E i \in 1..MaxCalls : timeout(i))

\* ------------------------------------------------------------ probe claims
\* every call made so far was made in the running session
OwnCalls == \A i \in DOMAIN calls : calls[i].sess = session

\* nothing of the probe is outstanding: no scheduled pre-check, no probe in flight
Settled ==
    /\ preDCL = 0 /\ preTimer = 0
    /\ \A i \in DOMAIN calls : calls[i].img => calls[i].completed

\* C1: within one session, once cdnAvailable is "true" or "false" no step changes
\* it, whichever of the session's probes (init's, test's) an event belongs to.
C1_FinalInSession ==
    [][(session' = session /\ OwnCalls /\ cdnAvailable # "null")
          => cdnAvailable' = cdnAvailable]_vars

\* C2: a call that issued the image (result unknown, path configured) is resolved
\* by its first event: load gives true, error and timeout give false; the
\* callback has run exactly once with that value, and a later event of the call
\* changes neither the callback's record nor cdnAvailable.
C2_Outcome(call) == IF call.first = "load" THEN "true" ELSE "false"

C2_FirstEventWins ==
    /\ [](\A i \in DOMAIN calls :
            /\ calls[i].img <=> (calls[i].path /\ calls[i].pre = "null")
            /\ calls[i].img =>
                 IF calls[i].completed
                 THEN /\ calls[i].first \in {"load", "error", "timeout"}
                      /\ calls[i].cbN = 1
                      /\ calls[i].cbV = C2_Outcome(calls[i])
                 ELSE /\ calls[i].cbN = 0
                      /\ ~calls[i].load /\ ~calls[i].err /\ calls[i].timer = "pending")
    /\ [][\A i \in DOMAIN calls :
            /\ (calls[i].img /\ ~calls[i].completed /\ calls'[i].completed)
                  => cdnAvailable' = calls'[i].cbV
            /\ (calls[i].img /\ calls[i].completed /\ calls'[i] # calls[i])
                  => /\ cdnAvailable' = cdnAvailable
                     /\ calls'[i].cbN = calls[i].cbN
                     /\ calls'[i].cbV = calls[i].cbV
                     /\ calls'[i].first = calls[i].first]_vars

C2_Witness ==
    \E i \in DOMAIN calls :
        /\ calls[i].first = "timeout" /\ calls[i].load /\ calls[i].err
        /\ calls[i].cbN = 1 /\ calls[i].cbV = "false"

\* C3: every probe call's callback is eventually invoked, and never twice; an
\* init call made while a probe is in flight does not stop it.
C3_EveryProbeResolves ==
    /\ [](\A i \in DOMAIN calls : calls[i].cbN <= 1)
    /\ \A i \in 1..MaxCalls :
          (Len(calls) >= i) ~> (Len(calls) >= i /\ calls[i].cbN = 1)

C3_Witness ==
    \E i \in DOMAIN calls :
        /\ calls[i].img /\ calls[i].first = "timeout" /\ calls[i].cbN = 1
        /\ calls[i].doneSess > calls[i].sess

\* C4: a probe call made with no testImagePath configured has invoked its
\* callback once with true, issued no image and no timer, and leaves
\* cdnAvailable "true", whatever cdnAvailable was before.
C4_NoPathSync ==
    /\ [](\A i \in DOMAIN calls :
            ~calls[i].path =>
                /\ calls[i].cbN = 1 /\ calls[i].cbV = "true"
                /\ ~calls[i].img /\ calls[i].timer = "none"
                /\ ~calls[i].load /\ ~calls[i].err)
    /\ [][\A i \in DOMAIN calls' :
            (i > Len(calls) /\ ~calls'[i].path) => cdnAvailable' = "true"]_vars

C4_Witness ==
    \E i \in DOMAIN calls :
        /\ ~calls[i].path /\ calls[i].pre = "false"
        /\ calls[i].cbN = 1 /\ calls[i].cbV = "true"

\* C5: a probe call made with a testImagePath while cdnAvailable is decided has
\* invoked its callback once with the cached value, issued no image and no
\* timer, and leaves cdnAvailable as it was.
C5_CachedResult ==
    /\ [](\A i \in DOMAIN calls :
            (calls[i].path /\ calls[i].pre # "null") =>
                /\ calls[i].cbN = 1 /\ calls[i].cbV = calls[i].pre
                /\ ~calls[i].img /\ calls[i].timer = "none"
                /\ ~calls[i].load /\ ~calls[i].err)
    /\ [][\A i \in DOMAIN calls' :
            (i > Len(calls) /\ calls'[i].path /\ calls'[i].pre # "null")
                => /\ cdnAvailable' = calls'[i].pre
                   /\ cdnAvailable' = cdnAvailable]_vars

C5_Witness ==
    /\ \E i \in DOMAIN calls :
          /\ calls[i].by = "init" /\ calls[i].path /\ calls[i].pre = "false"
          /\ calls[i].cbV = "false" /\ lastBulk = calls[i].sess
    /\ \E i \in DOMAIN calls :
          /\ calls[i].by = "test" /\ calls[i].path /\ calls[i].pre = "false"
          /\ calls[i].cbV = "false"

\* C6: when cdnAvailable is "false" and nothing of the session's probes is
\* outstanding, the bulk pass has run in the session and a watcher observes.
C6_UnavailableRunsBulk ==
    (initialized /\ OwnCalls /\ Settled /\ cdnAvailable = "false")
        => (lastBulk = session /\ observers > 0)

\* ------------------------------------------------ the page and its failures
\* the pages: a template for every element, the children of the <picture> in
\* the document together or not at all
Pages ==
    { f \in [Elems -> (1..Len(Template)) \X BOOLEAN] :
        \A x, y \in Elems :
            /\ (Template[f[x][1]].pic # 0 /\ Template[f[y][1]].pic # 0) => f[x][2] = f[y][2]
            /\ x <= y => f[x][1] <= f[y][1] }

DomInit == \E f \in Pages : Start(<<"complete", TRUE>>, f, TRUE)

DomNext ==
    \/ \E o \in OptionSet : init(o)
    \/ \E i \in DOMAIN calls : ~calls[i].completed /\ onload(i)
    \/ \E i \in DOMAIN calls : ~calls[i].completed /\ onerror(i)
    \/ \E i \in DOMAIN calls : timeout(i)
    \/ \E e \in Elems : ErrorEvent(e)
    \/ \E t \in timers : ImageTimer(t)
    \/ replaceAll
    \/ \E e \in Elems : appendChild(e)
    \/ appendPicture

DomSpec == DomInit /\ [][DomNext]_vars

\* The pages of images and picture sources served from the CDN, under the
\* event loop's guarantee that pending timers run.
ImagePages ==
    { f \in Pages : \A x \in Elems :
        /\ Template[f[x][1]].tag \in {"IMG", "SOURCE"}
        /\ getCdnUrlRegex([cdnDomain |-> CdnDomain], SrcProp(Template[f[x][1]])) # {} }

ImageSpec ==
    /\ \E f \in ImagePages : Start(<<"complete", TRUE>>, f, TRUE)
    /\ [][DomNext]_vars
    /\ WF_vars(\E t \in timers : ImageTimer(t))

\* handleResourceError called on any element of any page
handleResourceErrorCall(e) ==
    /\ LET s == handleResourceError(config, St, e)
       IN InBounds(s) /\ Put(s)
    /\ UNCHANGED Others

HandleNext ==
    \/ \E o \in OptionSet : init(o)
    \/ \E e \in Elems : handleResourceErrorCall(e)
    \/ \E t \in timers : ImageTimer(t)

HandleSpec == DomInit /\ [][HandleNext]_vars

\* ---------------------------------------------------------- element claims
Pending(e) == \E t \in timers : t.el = e

\* C7: a load error, after init, of an <img> without error mark whose src starts
\* with the CDN prefix marks it, removes its src in the same step and schedules
\* rewrite(original src); while that is pending the element has no src; the
\* pending assignment is only ever taken by the timer, which sets src to it;
\* and it is eventually taken.
C7_ImageRetry ==
    /\ [](\A t \in timers : elems[t.el].src = <<>> /\ elems[t.el].handled = "true")
    /\ [][\A e \in Elems :
            (/\ ErrorEvent(e)
             /\ listeners > 0
             /\ elems[e].tag = "IMG"
             /\ elems[e].handled = ""
             /\ getCdnUrlRegex(config, elems[e].src) # {})
            => /\ elems'[e].handled = "true"
               /\ elems'[e].src = <<>>
               /\ [el |-> e, url |-> generateFallbackUrl(config, elems[e].src)] \in timers'
               /\ elems'[e].display = elems[e].display]_vars
    /\ [][\A t \in timers : t \notin timers' => elems'[t.el].src = t.url]_vars
    /\ \A e \in Elems : Pending(e) ~> (~Pending(e) /\ elems[e].src # <<>>)

C7_Witness ==
    \E e \in Elems :
        /\ elems[e].tag = "IMG" /\ elems[e].handled = "true" /\ elems[e].onerror
        /\ elems[e].src = FallbackDomain \o <<"/", "a">>
        /\ observers = 0 /\ timers = {}

\* C8: a load failure of an element marked error-handled marks it error-failed
\* and hides it if it is an image; a load failure of an element marked
\* error-failed changes nothing.
C8_FailedTerminal ==
    [][\A e \in Elems :
        (ErrorEvent(e) /\ listeners > 0) =>
            /\ elems[e].handled = "true" =>
                  /\ elems'[e].handled = "failed"
                  /\ elems[e].tag = "IMG" => elems'[e].display = "none"
            /\ elems[e].handled = "failed" =>
                  /\ elems' = elems /\ head' = head
                  /\ timers' = timers /\ reports' = reports]_vars

\* C9: once an <img> or <source> carries the error mark, the mark is never
\* cleared nor set again, and its URL changes only by the one deferred
\* assignment its rewrite scheduled: no error event, bulk pass or watcher
\* notification rewrites it a second time.
C9_RewrittenOnce ==
    [][\A e \in Elems :
        (elems[e].tag \in {"IMG", "SOURCE"} /\ elems[e].handled # "") =>
            /\ elems'[e].handled # ""
            /\ elems'[e].handled = "true" => elems[e].handled = "true"
            /\ ~Pending(e) => elems'[e].src = elems[e].src]_vars

\* C10: handleResourceError on an element without error mark whose URL does not
\* contain the CDN domain leaves marks, attributes, styles, document head,
\* timers and reports as they are.
C10_ForeignNoOp ==
    \A e \in Elems :
        (elems[e].handled = "" /\ ~isCdnUrl(config, SrcProp(elems[e])))
            => handleResourceError(config, St, e) = St

C10_Witness ==
    /\ initialized /\ EnableSentry(config) /\ reports > 0
    /\ \E e \in Elems :
          /\ elems[e].handled = "" /\ elems[e].src # <<>>
          /\ ~isCdnUrl(config, SrcProp(elems[e]))
    /\ \E e \in Elems : elems[e].handled = "true"

\* ------------------------------------------------------------ the watcher
\* Pages of images, inserted while the probe runs in any phase of the document.
WatchPages == { f \in Pages : \A x \in Elems : Template[f[x][1]].tag = "IMG" }

WatchInit == \E r \in Phases : \E f \in WatchPages : Start(r, f, TRUE)

WatchNext ==
    \/ \E o \in ProbeOptions : init(o)
    \/ Interactive
    \/ DOMContentLoaded
    \/ Complete
    \/ PreCheckTimer
    \/ test
    \/ \E i \in DOMAIN calls : ~calls[i].completed /\ onload(i)
    \/ \E i \in DOMAIN calls : ~calls[i].completed /\ onerror(i)
    \/ \E i \in DOMAIN calls : timeout(i)
    \/ \E e \in Elems : appendChild(e)
    \/ appendPicture
    \/ \E t \in timers : ImageTimer(t)

WatchSpec == WatchInit /\ [][WatchNext]_vars

\* an <img> without error mark whose src holds the CDN domain enters the document
Inserted(e) ==
    /\ elems[e].tag = "IMG" /\ ~elems[e].inDoc /\ elems'[e].inDoc
    /\ elems[e].handled = ""
    /\ isCdnUrl(config, SrcProp(elems[e]))

\* the insertion changed nothing but document membership
Untouched ==
    /\ elems' = [x \in Elems |-> [elems[x] EXCEPT !.inDoc = elems'[x].inDoc]]
    /\ timers' = timers /\ head' = head /\ reports' = reports
    /\ bg' = bg /\ bgTimers' = bgTimers

Rewritten(e) ==
    /\ elems'[e].handled = "true"
    /\ elems'[e].src = <<>>
    /\ [el |-> e, url |-> generateFallbackUrl(config, SrcProp(elems[e]))] \in timers'

BgPages == { f \in Pages : \A x \in Elems : f[x][1] = IF x = 1 THEN 4 ELSE 6 }

BgLayouts ==
    { k \in [Nodes -> SingleLayer] : k[0] = 3 /\ k[1] \in {2, 4} }

BgInit ==
    \E f \in BgPages : \E k \in BgLayouts :
        Boot(<<"complete", TRUE>>, f, FALSE, k, FALSE, <<>>)

Targets == Nodes \cup {-1}

BgNext ==
    \/ \E o \in ProbeOptions : init(o)
    \/ \E i \in DOMAIN calls : ~calls[i].completed /\ onload(i)
    \/ \E i \in DOMAIN calls : ~calls[i].completed /\ onerror(i)
    \/ \E i \in DOMAIN calls : timeout(i)
    \/ replaceAll
    \/ \E n \in Nodes : replaceBackground(n)
    \/ \E target \in Targets : checkElement(target)
    \/ \E e \in Elems : appendChild(e)
    \/ appendPicture
    \/ \E n \in Nodes : BgTimer(n)
    \/ DelayedCheck
    \/ WindowLoad

BgSpec == BgInit /\ [][BgNext]_vars

\* C12: when executeReplaceAll runs with background fallback enabled, every
\* element in the document whose inline background-image is url(<CDN URL>) gets
\* the inline background-image url(rewrite(<CDN URL>)).
C12_InlineRewritten ==
    [][\A n \in Nodes :
        (/\ observers' > observers
         /\ isBackgroundFallbackEnabled(config)
         /\ InDocument(St, n)
         /\ ~bg[n].processed
         /\ getCdnUrlRegex(config, UrlOf(bg[n].inline)) # {})
        => bg'[n].inline = CssUrl(generateFallbackUrl(config, UrlOf(bg[n].inline)))]_vars

\* C19: while the configuration holds no testImagePath, no step other than init
\* changes the background state of any element.
C19_DisabledWithoutPath ==
    [][(~isBackgroundFallbackEnabled(config) /\ config' = config /\ listeners' = listeners)
          => bg' = bg]_vars

\* what checkElement(target) is to leave behind: the target and the elements
\* below it marked, those not marked before passed through replaceBackgroundImage
CheckedTree(target) ==
    LET s2 == publicCheckElement(St, target)
    IN /\ [s2 EXCEPT !.bg = bg] = St
       /\ \A n \in Nodes :
            IF n = target \/ n \in Descendants(St, target)
            THEN /\ s2.bg[n].processed
                 /\ s2.bg[n] = IF bg[n].processed THEN bg[n]
                               ELSE [replaceBackgroundImage(config, bg[n])
                                        EXCEPT !.processed = TRUE]
            ELSE s2.bg[n] = bg[n]

\* C20 (as stated): after init and with background fallback enabled,
\* checkElement marks the target and every element below it and passes those
\* not marked before through replaceBackgroundImage; a selector that matches
\* nothing changes nothing.
C20_CheckElementTree ==
    (initialized /\ isBackgroundFallbackEnabled(config)) =>
        /\ \A target \in Nodes : CheckedTree(target)
        /\ publicCheckElement(St, -1) = St

\* C20 (amended): it does so when cdnAvailable is false; when cdnAvailable is
\* null or true, or the selector matches nothing, it changes nothing.
C20_CheckElementTreeUnavailable ==
    (initialized /\ isBackgroundFallbackEnabled(config)) =>
        /\ \A target \in Nodes :
              IF cdnAvailable = "false" THEN CheckedTree(target)
              ELSE publicCheckElement(St, target) = St
        /\ publicCheckElement(St, -1) = St

C20_Witness ==
    /\ initialized /\ isBackgroundFallbackEnabled(config) /\ cdnAvailable = "false"
    /\ ~InDocument(St, 0) /\ bg[0].processed
    /\ \E x \in Descendants(St, 0) :
          /\ bg[x].processed /\ bg[x].css # <<>> /\ ~bg[x].lazy
          /\ bg[x].inline = CssUrl(generateFallbackUrl(config, bg[x].css))
    /\ \E x \in Elems : ~bg[x].processed

\* ---------------------------------------------------------- the rewriter
\* generateFallbackUrl applied to a string under the configurations init can set.
UrlSchemes == {<<>>, <<"http:">>, <<"https:">>, <<"ftp:">>, <<"x">>}

UrlHosts ==
    { <<"//", "cdn", "/">>, <<"//", "cdn", "/", "static", "/">>, <<"//", "cdn">>,
      <<"//", "other", "/">>, <<"/", "cdn", "/">>, <<>> }

UrlPaths ==
    { <<>>, <<"a">>, <<"a", "?q=1">>, <<"static", "/", "a">>,
      <<"a", ",", "https:", "//", "cdn", "/", "b">>, <<"//", "cdn", "/", "a">>,
      <<"x", "/", "a">> }

Urls == { s \o h \o q : s \in UrlSchemes, h \in UrlHosts, q \in UrlPaths }

UrlOptions ==
    { [cdnDomain |-> d, fallbackDomain |-> f] :
        d \in { CdnDomain, CdnDomain \o <<"/", "static">> },
        f \in { FallbackDomain, <<>>, <<"https:", "//", "mirror", "/", "cdn">>,
                <<"https:", "//", "cdn">>, <<"https:", "//", "cdn", "/", "x">>,
                <<"//", "cdn", "/", "static", "/", "x">> } }

UrlInit ==
    \E u \in Urls :
        Boot(<<"complete", TRUE>>, Page, FALSE, [n \in Nodes |-> 1], TRUE, u)

\* generateFallbackUrl(input), kept with the configuration it ran under
Rewrite ==
    /\ output' = <<config, generateFallbackUrl(config, input)>>
    /\ UNCHANGED <<config, cdnAvailable, initialized, listeners, readyState,
                   domContentLoaded, preDCL, preTimer, calls, observers, lastBulk, elems,
                   head, timers, reports, sentry, bg, bgTimers, delayed, loaded,
                   loadListeners, input>>

UrlNext ==
    \/ \E o \in UrlOptions : init(o)
    \/ Rewrite

UrlSpec == UrlInit /\ [][UrlNext]_vars

\* the delivery prefixes: "//", "http://" or "https://", the domain, "/"
DeliveryPrefixes(c) ==
    { <<"//">> \o c.cdnDomain \o <<"/">>,
      <<"http:", "//">> \o c.cdnDomain \o <<"/">>,
      <<"https:", "//">> \o c.cdnDomain \o <<"/">> }

\* what the claim says rewrite(u) is
Expected(c, u) ==
    IF \E p \in DeliveryPrefixes(c) : StartsWith(u, p)
    THEN LET p == CHOOSE q \in DeliveryPrefixes(c) : StartsWith(u, q)
         IN c.fallbackDomain \o <<"/">> \o SubSeq(u, Len(p) + 1, Len(u))
    ELSE u

\* C13: rewrite(u) is fallbackOrigin, "/" and the remainder of u after the
\* delivery prefix when u starts with it, and u itself otherwise.
C13_RewritePrefix ==
    /\ generateFallbackUrl(config, input) = Expected(config, input)
    /\ output # <<>> => output[2] = Expected(output[1], input)

C13_Witness ==
    /\ input = <<"https:", "//", "cdn", "/", "a", ",", "https:", "//", "cdn", "/", "b">>
    /\ output # <<>>
    /\ output[2] = FallbackDomain \o <<"/", "a", ",", "https:", "//", "cdn", "/", "b">>

Idempotent(c, u) ==
    generateFallbackUrl(c, generateFallbackUrl(c, u)) = generateFallbackUrl(c, u)

\* fallbackOrigin + "/" in relation to the delivery prefixes
Slashed(c) == c.fallbackDomain \o <<"/">>

MatchesPattern(c) == getCdnUrlRegex(c, Slashed(c)) # {}

Extends(c) == \E p \in CdnPrefixes(c) : StartsWith(Slashed(c), p) /\ Slashed(c) # p

PartOf(c) == \E p \in CdnPrefixes(c) : StartsWith(p, Slashed(c)) /\ Slashed(c) # p

\* C14 (as stated): rewrite is idempotent on every u when the fallback origin
\* does not match the delivery pattern, and is not idempotent (on some u) when
\* the fallback origin contains the delivery domain.
C14_Idempotent ==
    /\ ~MatchesPattern(config) => Idempotent(config, input)
    /\ Includes(config.fallbackDomain, config.cdnDomain)
          => \E u \in Urls : ~Idempotent(config, u)

\* C14 (amended): rewrite is idempotent on every u when fallbackOrigin + "/"
\* neither properly extends a delivery prefix nor is a proper initial part of
\* one; when it properly extends one, no u that starts with a delivery prefix is
\* left alone by a second application.
C14_IdempotentUnlessExtends ==
    /\ (~Extends(config) /\ ~PartOf(config)) => Idempotent(config, input)
    /\ (Extends(config) /\ getCdnUrlRegex(config, input) # {})
          => ~Idempotent(config, input)

C14_Witness ==
    /\ Extends(config) /\ getCdnUrlRegex(config, input) # {}
    /\ output # <<>> /\ output[1] = config
    /\ Len(generateFallbackUrl(config, output[2])) > Len(output[2])

\* ------------------------------------------------------- the configuration
\* init with options that leave fields out, and reads of the configuration
InitOptions ==
    { <<>>,
      [cdnDomain |-> CdnDomain],
      [fallbackDomain |-> <<>>],
      [testTimeout |-> 5000, fallbackDomain |-> FallbackDomain],
      [testImagePath |-> ProbePath, enableSentry |-> TRUE] }

ConfigFields == {"cdnDomain", "fallbackDomain", "testTimeout", "testImagePath"}

ConfigNext ==
    \/ \E o \in InitOptions : init(o)
    \/ getConfig
    \/ \E k \in ConfigFields : SetSnapshotField(k)
    \/ \E i \in DOMAIN calls : onload(i)
    \/ \E i \in DOMAIN calls : onerror(i)
    \/ \E i \in DOMAIN calls : timeout(i)

ConfigSpec == Start(<<"complete", TRUE>>, Page, FALSE) /\ [][ConfigNext]_vars

\* C15: before the first init getConfig returns null; after init it returns a
\* snapshot equal to the configuration; and the configuration changes in init
\* steps only, whatever the caller does to a snapshot.
C15_SnapshotOfConfig ==
    /\ [](~initialized => (getConfigSnapshot.null /\ (Len(input) > 0 => output.null)))
    /\ [][(getConfig /\ initialized) =>
            (~output'.null /\ output'.value = config /\ config' = config)]_vars
    /\ [][config' # config => listeners' = listeners + 1]_vars

C15_Witness ==
    /\ initialized /\ Len(input) = 2 /\ input[1] = "set"
    /\ output.value # config
    /\ output.value.cdnDomain = config.cdnDomain
    /\ output.value.fallbackDomain = <<"changed">>

\* the defaults the documentation gives
DocumentedTestTimeout == 3000

\* C16: an init call leaves the configuration equal to the defaults overlaid
\* with its own options only: a field it omits holds the documented default
\* (cdnDomain and page origin, testTimeout 3000, no probe path, reporting off),
\* an empty fallbackDomain is the page origin, and the pre-check it starts finds
\* cdnAvailable reset to null.
C16_InitOverlay ==
    [][\A o \in InitOptions :
        init(o) =>
            /\ config'.cdnDomain =
                 IF "cdnDomain" \in DOMAIN o THEN o.cdnDomain ELSE defaultConfig.cdnDomain
            /\ config'.fallbackDomain =
                 IF "fallbackDomain" \in DOMAIN o /\ o.fallbackDomain # <<>>
                 THEN o.fallbackDomain ELSE Origin
            /\ TestTimeout(config') =
                 IF "testTimeout" \in DOMAIN o THEN o.testTimeout ELSE DocumentedTestTimeout
            /\ TestImagePath(config') =
                 IF "testImagePath" \in DOMAIN o THEN o.testImagePath ELSE <<>>
            /\ EnableSentry(config') =
                 IF "enableSentry" \in DOMAIN o THEN o.enableSentry ELSE FALSE
            /\ \/ cdnAvailable' = "null"
               \/ Len(calls') > Len(calls) /\ calls'[Len(calls')].pre = "null"]_vars

\* --------------------------------------------------- the API before init
ApiOps == {"test", "replaceAll", "replaceBackground", "checkElement"}

\* one call of the public API from the page's script, recorded in input
Call(op, arg) ==
    /\ op = "replaceBackground" => arg \in Nodes
    /\ (op = "test" /\ initialized) => Booked < MaxCalls
    /\ input' = <<op, arg>>
    /\ Put(CASE op = "test" -> publicTest(St)
             [] op = "replaceAll" -> publicReplaceAll(St)
             [] op = "replaceBackground" -> publicReplaceBackground(St, arg)
             [] op = "checkElement" -> publicCheckElement(St, arg))
    /\ UNCHANGED <<config, initialized, listeners, readyState, domContentLoaded, preDCL,
                   preTimer, sentry, loaded, loadListeners, output>>

ApiNext ==
    \/ \E o \in ProbeOptions : init(o)
    \/ \E op \in ApiOps : \E arg \in Targets : Call(op, arg)
    \/ \E i \in DOMAIN calls : ~calls[i].completed /\ onload(i)
    \/ \E i \in DOMAIN calls : ~calls[i].completed /\ onerror(i)
    \/ \E i \in DOMAIN calls : timeout(i)
    \/ DelayedCheck

\* a complete page, every element in the document, with inline and computed
\* CDN backgrounds
ApiInit ==
    \E f \in BgPages : \E k \in BgLayouts :
        /\ \A x \in Elems : f[x][2]
        /\ \A n \in Nodes : n > 0 => k[n] = IF n = 1 THEN 4 ELSE 2
        /\ Boot(<<"complete", TRUE>>, f, FALSE, k, FALSE, <<>>)

ApiSpec == ApiInit /\ [][ApiNext]_vars

\* C17: before the first init, test, replaceAll, replaceBackground and
\* checkElement return the state they were given, and a call of any of them
\* changes nothing of the page or the module.
C17_NoOpBeforeInit ==
    /\ [](~initialized =>
            /\ publicTest(St) = St
            /\ publicReplaceAll(St) = St
            /\ \A n \in Nodes : publicReplaceBackground(St, n) = St
            /\ \A target \in Targets : publicCheckElement(St, target) = St)
    /\ [][\A op \in ApiOps : \A arg \in Targets :
            (~initialized /\ Call(op, arg)) =>
                UNCHANGED <<config, cdnAvailable, initialized, listeners, readyState,
                            domContentLoaded, preDCL, preTimer, calls, observers,
                            lastBulk, elems, head, timers, reports, sentry, bg, bgTimers,
                            delayed, loaded, loadListeners, output>>]_vars

C17_Witness ==
    /\ ~initialized /\ Len(input) = 2 /\ input[1] = "test"
    /\ cdnAvailable = "null" /\ calls = <<>>
    /\ \E n \in Nodes : bg[n].css = BgUrl

\* ------------------------------------------------------------ reporting
\* handleResourceError on any element of any page, with and without a sink
ReportInit == \E f \in Pages : \E sn \in BOOLEAN : Start(<<"complete", TRUE>>, f, sn)

ReportSpec == ReportInit /\ [][HandleNext]_vars

\* a handleResourceError call on e that goes on to the fallback
FallbackInvocation(c, s, e) ==
    ~isElementProcessed(s.elems, e) /\ isCdnUrl(c, SrcProp(s.elems[e]))

Silenced(c) == Spread(c, [enableSentry |-> FALSE])

\* C18: a handleResourceError call that falls back calls captureException once
\* when config.enableSentry is set and the sink is there, and not at all
\* otherwise; and whatever the call does to the page is what it does with
\* reporting off.
C18_ReportOnce ==
    \A e \in Elems :
        LET s == handleResourceError(config, St, e)
            quiet == handleResourceError(Silenced(config), St, e)
        IN /\ FallbackInvocation(config, St, e) =>
                s.reports = reports + (IF EnableSentry(config) /\ sentry THEN 1 ELSE 0)
           /\ quiet.reports = reports
           /\ [s EXCEPT !.reports = 0] = [quiet EXCEPT !.reports = 0]

C18_Witness ==
    /\ EnableSentry(config) /\ sentry /\ reports = 1
    /\ \E e \in Elems : elems[e].handled = "true" /\ elems[e].tag = "SCRIPT"
    /\ \E e \in Elems : FallbackInvocation(config, St, e)

\* ------------------------------------------------------ the lazy script
\* the engine and the lazy script on a complete page whose node 1 is under the
\* class bg-lazy
LazyNext ==
    \/ \E o \in ProbeOptions : init(o)
    \/ \E i \in DOMAIN calls : ~calls[i].completed /\ onload(i)
    \/ \E i \in DOMAIN calls : ~calls[i].completed /\ onerror(i)
    \/ \E i \in DOMAIN calls : timeout(i)
    \/ replaceAll
    \/ \E n \in Nodes : Reveal(n)
    \/ DelayedCheck
    \/ WindowLoad

LazySpec == ApiInit /\ [][LazyNext]_vars

\* loadBackgroundImage never reaches its setTimeout
NoRevealTimer == \A n \in Nodes : bg[n].reveal = 0

\* C21: the exported object's cdnAvailable is the probe result at all times;
\* and a reveal made while it is false turns a pending fallback URL into the
\* inline background-image and clears it, or else, for an element with the
\* pending flag, schedules replaceBackground for the next tick.
C21_RevealApplies ==
    /\ [](RsRetryCdnAvailable(St) = publicCdnAvailable(St))
    /\ [][\A n \in Nodes :
            (Reveal(n) /\ cdnAvailable = "false") =>
                /\ ~bg'[n].lazy
                /\ bg[n].fallbackUrl # <<>> =>
                      /\ bg'[n].inline = CssUrl(bg[n].fallbackUrl)
                      /\ bg'[n].fallbackUrl = <<>>
                /\ (bg[n].fallbackUrl = <<>> /\ bg[n].pending) =>
                      bg'[n].reveal = bg[n].reveal + 1]_vars

\* ------------------------------------------------------ the error listener
\* C22: whatever the number of init calls, an error event on an element runs
\* handleResourceError at most once, so the first failure of a CDN script, link
\* or image is not also recorded as its second.
C22_SingleListener ==
    [][\A e \in Elems :
          ErrorEvent(e) =>
            /\ St' = DispatchError(IF listeners > 0 THEN 1 ELSE 0, config, St, e)
            /\ elems[e].handled = "" => elems'[e].handled # "failed"]_vars

\* ------------------------------------------------- script and link fallback
Replacements(e) == { i \in DOMAIN head : head[i].of = e }

FirstFailure(e) ==
    /\ elems[e].tag = "SCRIPT" \/ (elems[e].tag = "LINK" /\ elems[e].rel = "stylesheet")
    /\ elems[e].handled = ""
    /\ isCdnUrl(config, SrcProp(elems[e]))
    /\ listeners > 0

\* C23: the first failure of a CDN script (stylesheet link) appends exactly one
\* script (link) to the head, with the rewritten URL and the failed element's
\* async, defer and type (media), and leaves the failed element in the document
\* with its URL; and no element ever has two replacements.
C23_OneReplacement ==
    /\ [][\A e \in Elems :
            (ErrorEvent(e) /\ FirstFailure(e)) =>
                /\ Len(head') = Len(head) + 1
                /\ SubSeq(head', 1, Len(head)) = head
                /\ LET new == head'[Len(head')]
                   IN /\ new.of = e /\ new.tag = elems[e].tag
                      /\ new.src = generateFallbackUrl(config, SrcProp(elems[e]))
                      /\ elems[e].tag = "SCRIPT" =>
                            /\ new.attrs.async = elems[e].attrs.async
                            /\ new.attrs.defer = elems[e].attrs.defer
                            /\ new.attrs.type = elems[e].attrs.type
                      /\ elems[e].tag = "LINK" =>
                            /\ new.rel = "stylesheet"
                            /\ new.attrs.media = elems[e].attrs.media
                /\ elems'[e].src = elems[e].src
                /\ elems'[e].inDoc = elems[e].inDoc]_vars
    /\ [](\A e \in Elems : Cardinality(Replacements(e)) <= 1)

\* the first half alone
FirstFailureAppends ==
    [][\A e \in Elems :
            (ErrorEvent(e) /\ FirstFailure(e)) =>
                /\ Len(head') = Len(head) + 1
                /\ LET new == head'[Len(head')]
                   IN /\ new.of = e
                      /\ new.src = generateFallbackUrl(config, SrcProp(elems[e]))
                      /\ elems[e].tag = "SCRIPT" => new.attrs = elems[e].attrs
                /\ elems'[e].src = elems[e].src]_vars

\* ------------------------------------------------------ the class bg-lazy
ProbeOptionConfigs == { Spread(defaultConfig, o) : o \in ProbeOptions }

\* C24: replaceBackgroundImage returns the element with the class bg-lazy as it
\* found it, on every element and in every state, under the configuration in
\* force and under every other.
C24_LazyClassKept ==
    \A n \in Nodes : \A c \in {config} \cup ProbeOptionConfigs :
        replaceBackgroundImage(c, bg[n]).lazy = bg[n].lazy

C24_Witness ==
    \E n \in Nodes :
        /\ bg[n].lazy /\ isBackgroundFallbackEnabled(config)
        /\ bg[n].fallbackUrl = generateFallbackUrl(config, bg[n].css)
        /\ bg[n].fallbackUrl # bg[n].css
        /\ ~bg[n].pending /\ ~bg[n].processed

\* ------------------------------------------------- computed backgrounds
\* a complete page, every element in the document, with rules of one and of two
\* layers, under the class bg-lazy and not
LayerLayouts ==
    { k \in [Nodes -> 1..Len(BgKinds)] : k[0] = 5 /\ k[1] \in {4, 6} }

LayerInit ==
    \E f \in BgPages : \E k \in LayerLayouts :
        /\ \A x \in Elems : f[x][2]
        /\ Boot(<<"complete", TRUE>>, f, FALSE, k, FALSE, <<>>)

LayerNext ==
    \/ \E o \in ProbeOptions : init(o)
    \/ \E i \in DOMAIN calls : ~calls[i].completed /\ onload(i)
    \/ \E i \in DOMAIN calls : ~calls[i].completed /\ onerror(i)
    \/ \E i \in DOMAIN calls : timeout(i)
    \/ replaceAll
    \/ \E n \in Nodes : replaceBackground(n)
    \/ \E n \in Nodes : Reveal(n)
    \/ DelayedCheck

LayerSpec == LayerInit /\ [][LayerNext]_vars

Range(seq) == { seq[i] : i \in DOMAIN seq }

\* the CDN URLs among the layers of the rule that applies to an element
CdnLayers(c, b) ==
    LET urls == UrlMatches(Computed([b EXCEPT !.lazy = FALSE]))
    IN { urls[i] : i \in { j \in DOMAIN urls : isCdnUrl(c, urls[j]) } }

\* C25: for an element without a CDN inline background whose computed background
\* has CDN layers, replaceBackgroundImage on an element under bg-lazy stores a
\* rewritten URL as the pending fallback URL and leaves the inline style; on any
\* other element it leaves the pending URL and the inline style then holds the
\* rewritten URL of every CDN layer. After the bulk pass every element of the
\* document under bg-lazy has the pending flag.
C25_ComputedLayers ==
    /\ \A n \in Nodes :
         LET b == bg[n]
             r == replaceBackgroundImage(config, b)
             layers == CdnLayers(config, b)
         IN (/\ isBackgroundFallbackEnabled(config)
             /\ ~isCdnUrl(config, b.inline)
             /\ layers # {})
            => IF b.lazy
               THEN /\ r.fallbackUrl \in { generateFallbackUrl(config, u) : u \in layers }
                    /\ r.inline = b.inline
               ELSE /\ r.fallbackUrl = b.fallbackUrl
                    /\ \A u \in layers :
                          generateFallbackUrl(config, u) \in
                              Range(UrlMatches(r.inline))
    /\ isBackgroundFallbackEnabled(config) =>
         \A n \in Nodes :
            (InDocument(St, n) /\ bg[n].lazy)
                => replaceAllBackgroundImages(config, St).bg[n].pending

\* ------------------------------------------------- the deferred marker
\* node n is the element the lazy script revealed last
Revealed(n) == Len(input) = 2 /\ input[1] = "reveal" /\ input[2] = n /\ ~bg[n].lazy

\* the inline background of n is its rule's URL rewritten
Applied(n) ==
    /\ bg[n].css # <<>>
    /\ bg[n].inline = CssUrl(generateFallbackUrl(config, bg[n].css))
    /\ bg[n].inline # CssUrl(bg[n].css)

\* C26: an element that was revealed and has its background fallback applied
\* carries neither the pending flag nor a pending fallback URL.
C26_MarkerCleared ==
    \A n \in Nodes :
        (Revealed(n) /\ Applied(n)) => (~bg[n].pending /\ bg[n].fallbackUrl = <<>>)

\* ---------------------------------------------------- the second failure
\* C27: with config.enableSentry set and the sink there, a handleResourceError
\* call on an element already marked as handled calls captureException once,
\* besides recording the failure on the element.
C27_SecondFailureReported ==
    \A e \in Elems :
        (isElementProcessed(elems, e) /\ EnableSentry(config) /\ sentry) =>
            LET s == handleResourceError(config, St, e)
            IN /\ s.elems[e].handled = "failed"
               /\ s.reports = reports + 1

\* ------------------------------------------------------- hidden images
\* C28: a hidden element is an image marked "true" or "failed"; an element gets
\* hidden only in an error event on itself, and only when it was marked before
\* the event; the background operations leave the elements as they are.
C28_HiddenAfterFallback ==
    /\ [](\A e \in Elems :
            elems[e].display = "none" =>
                (elems[e].tag = "IMG" /\ elems[e].handled \in {"true", "failed"}))
    /\ [](/\ \A n \in Nodes : publicReplaceBackground(St, n).elems = elems
          /\ \A target \in Targets : publicCheckElement(St, target).elems = elems
          /\ delayedBackgroundCheck(config, St).elems = elems
          /\ replaceAllBackgroundImages(config, St).elems = elems)
    /\ [][\A e \in Elems :
            (elems'[e].display = "none" /\ elems[e].display # "none") =>
                /\ elems[e].handled \in {"true", "failed"}
                /\ ErrorEvent(e)]_vars

C28_Witness ==
    \E e \in Elems :
        /\ elems[e].tag = "IMG" /\ elems[e].display = "none"
        /\ elems[e].handled = "true" /\ elems[e].onerror
        /\ lastBulk > 0 /\ observers > 0

\* ------------------------------------------- the result without a probe path
\* C29: cdnAvailable is "false" only under a configuration with a probe path.
C29_UnavailableNeedsPath ==
    cdnAvailable = "false" => isBackgroundFallbackEnabled(config)

====
